---- MODULE Spec2Model ----
(***************************************************************************)
(* The batching sinks of target_bigquery/sinks.py: BaseBigQuerySink and    *)
(* its three upload strategies (BigQueryStreamingSink, BigQueryBatchSink,  *)
(* BigQueryGcsStagingSink).                                                *)
(*                                                                         *)
(* One sink instance is modelled.  Its caller (the record source) holds    *)
(* one batch context at a time and calls start_batch, process_record and   *)
(* process_batch on it; an error raised by a call propagates to the        *)
(* caller, which may go on with a new context.  The warehouse and the      *)
(* object store are the environment: every remote call either succeeds or  *)
(* raises a connection-class or another error, load jobs and executor      *)
(* futures run asynchronously, and done-callbacks run when their job has   *)
(* reached a terminal state.                                               *)
(***************************************************************************)
EXTENDS Integers, Sequences, FiniteSets, TLC

\* ------------------------------------------------------------------ bounds
MaxThreads == 1
MaxBatches == 2
MaxRecords == 2
MaxJobs == 2

\* ------------------------------------------------------- program constants
MakeTargetAttempts == 2
InsertAttempts == 5
BatchUploadAttempts == 5
BlobUploadAttempts == 5
GcsUploadAttempts == 5

Strategies == {"Streaming", "BufferedLoad", "StagedLoad"}

VARIABLES
    strategy,         \* which sink class the instance is
    threads,          \* config["threads"]
    dataset_ref,      \* self._dataset_ref is not None
    table_ref,        \* self._table_ref is not None
    job_queue,        \* self.job_queue: the tokens it holds
    records_to_drain, \* self.records_to_drain (Streaming buffer)
    current_size,     \* self.current_size, the batch's record counter
    draining,         \* start_drain() has been called, mark_drained() not yet
    pending,          \* batch id of the caller's current context, 0 when none
    started,          \* start_batch has returned for the current context
    buf,              \* context["records"]: absent, or the BytesIO's data and position
    cur,              \* batch id of the context a running process_batch or start_batch was given
    pc,               \* where the caller's thread is
    attempt,          \* attempt number of the running _upload_records call
    awaiting,         \* the load job whose result() the caller waits for
    upload_exc,       \* the exception that ended the previous attempt of that call
    jobs,             \* every transport job submitted so far (load jobs, executor futures)
    cb_pending,       \* jobs with a done-callback registered that has not run yet
    staged,           \* the staging objects: path -> absent or the lines written
    written,          \* the rows committed to the table
    next_batch,       \* next batch id the caller hands out
    next_rec,         \* next record the record source delivers
    accepted,         \* batch id -> the records process_record accepted for it
    errored,          \* batch ids for which start_batch or process_batch raised
    last_call,        \* the sink method the caller called last
    last_result,      \* how that call ended: "ok", "noop", or the exception raised
    mt,               \* the last _make_target call: the exception of each attempt
    mt_calls,         \* the last _make_target call: the remote calls it made, in order
    created_ds,       \* how many create_dataset calls have succeeded so far
    created_tb,       \* how many create_table calls have succeeded so far
    done,             \* the function a function-level specification has applied, "" before
    name,             \* safe_column_name: the name argument, a sequence of characters
    quotes,           \* safe_column_name: the quotes argument
    safe,             \* safe_column_name: the value returned
    contains_coerced_field, \* self._contains_coerced_field
    reserialized,     \* the records preprocess_record passed through _parse_json_with_props
    schema,           \* self.schema["properties"]: ordered (name, property) pairs
    bigquery_schema,  \* self.bigquery_schema: the translated columns
    record,           \* the record handed to preprocess_record
    returned,         \* what preprocess_record returned or raised
    table_schema,     \* _evolve_schema: self._table_ref.schema, the local copy of the live schema
    evolve_log,       \* _evolve_schema: one entry per call made so far
    key_properties,   \* self.key_properties
    http_json,        \* the serializer module the transport holds (_http.json)
    wpc,              \* serializer: where each pool worker is in _upload_records
    cached_ref        \* serializer: each worker's local cached_ref

vars == << strategy, threads, dataset_ref, table_ref, job_queue, records_to_drain,
           current_size, draining, pending, started, buf, cur, pc, attempt, awaiting,
           upload_exc, jobs, cb_pending, staged, written, next_batch, next_rec, accepted, errored,
           last_call, last_result, mt, mt_calls, created_ds, created_tb,
           done, name, quotes, safe, contains_coerced_field, reserialized, schema,
           bigquery_schema, record, returned, table_schema, evolve_log, key_properties,
           http_json, wpc, cached_ref >>

\* The variables of the batch lifecycle.
sinkVars == << strategy, threads, dataset_ref, table_ref, job_queue, records_to_drain,
               current_size, draining, pending, started, buf, cur, pc, attempt, awaiting,
               upload_exc, jobs, cb_pending, staged, written, next_batch, next_rec,
               accepted, errored, last_call, last_result, mt, mt_calls, created_ds,
               created_tb, reserialized, key_properties >>

\* The variables of the function-level specifications; the sink's methods leave
\* them alone.
nameVars == << name, quotes, safe >>
schemaVars == << schema, bigquery_schema, record, returned >>
evolveVars == << table_schema, evolve_log >>
httpVars == << http_json, wpc, cached_ref >>
otherVars == << evolveVars, httpVars >>
pureVars == << done, nameVars, schemaVars, otherVars, key_properties >>
NamesUnused == name = << >> /\ quotes = FALSE /\ safe = << >>
SchemaUnused == schema = << >> /\ bigquery_schema = << >> /\ record = << >> /\ returned = << >>
EvolveUnused == table_schema = << >> /\ evolve_log = << >>
HttpUnused == http_json = "" /\ wpc = << >> /\ cached_ref = << >>
OthersUnused == EvolveUnused /\ HttpUnused /\ key_properties = << >>

\* ---------------------------------------------------------------- helpers

\* The exception classes tenacity is told to retry on, and Python's subclassing.
RetryTypes == {"ConnectionResetError", "ConnectionAbortedError", "ConnectionError"}

Superclasses(e) ==
    CASE e = "ConnectionResetError" -> {"ConnectionResetError", "ConnectionError", "OSError"}
      [] e = "ConnectionAbortedError" -> {"ConnectionAbortedError", "ConnectionError", "OSError"}
      [] e = "ConnectionError" -> {"ConnectionError", "OSError"}
      [] e = "TimeoutError" -> {"TimeoutError", "OSError"}
      [] OTHER -> {e}

\* retry_if_exception_type(...)
RetryIfException(out) == out # "ok" /\ out # "errors" /\ Superclasses(out) \cap RetryTypes # {}

\* What a remote call may do: succeed, or raise one of these.
RemoteErrors == {"ConnectionResetError", "BadRequest"}
RemoteOutcomes == {"ok"} \cup RemoteErrors

RECURSIVE Drop(_, _)
Drop(s, n) == IF n = 0 \/ s = << >> THEN s ELSE Drop(Tail(s), n - 1)

RECURSIVE Repeat(_, _)
Repeat(x, n) == IF n = 0 THEN << >> ELSE << x >> \o Repeat(x, n - 1)

Range(s) == { s[i] : i \in 1..Len(s) }

\* The outcome sequences a retried remote call can meet: k connection errors, then f.
OutcomeSeqs(limit) ==
    { Repeat("ConnectionResetError", k) \o << f >> : k \in 0..limit, f \in {"ok", "BadRequest"} }

\* orjson.dumps(record, option=OPT_APPEND_NEWLINE): one NDJSON line per record.
JsonLine(r) == [line |-> r]

\* The rows a load job parses out of an NDJSON payload.
ParseLines(payload) == [ i \in 1..Len(payload) |-> payload[i].line ]

\* BytesIO: lines are taken to be of equal length, so the position counts lines.
\* The fields of the record the source delivers as number r, and the key
\* properties a stream may be configured with.
RowOf(r) == [id |-> [k |-> "int", n |-> r], region |-> [k |-> "str", v |-> << "e", "u" >>]]
KeyPropertyLists == { << >>, << "id", "region" >> }
\* str(value), as characters
Str(value) ==
    IF value.k = "int"
    THEN << << "1", "2", "3", "4", "5", "6", "7", "8", "9" >>[value.n] >>
    ELSE value.v
\* sep.join(parts)
RECURSIVE Join(_, _)
Join(sep, parts) ==
    IF parts = << >> THEN << >>
    ELSE IF Len(parts) = 1 THEN parts[1]
    ELSE parts[1] \o sep \o Join(sep, Tail(parts))
\* _generate_batch_row_ids (lines 246-253)
GenerateBatchRowIds(records, keys) ==
    IF keys # << >>
    THEN [ i \in 1..Len(records) |->
             Join(<< "-", "-" >>, [ j \in 1..Len(keys) |-> Str(RowOf(records[i])[keys[j]]) ]) ]
    ELSE << >>
\* row_ids=insert_ids if insert_ids else None (line 275)
RowIdsArgument(insert_ids) ==
    IF insert_ids # << >> THEN [none |-> FALSE, ids |-> insert_ids]
    ELSE [none |-> TRUE, ids |-> << >>]

\* self._base_blob_path (lines 433-438): one fixed string for a sink instance.
BaseBlobPath == "gs://bucket/target_bigquery/dataset/stream"
\* A path that leaves the batch id out.
BlobPath_Shared(b) == << BaseBlobPath, ".jsonl" >>
\* f"{self._base_blob_path}/{context['batch_id']}.jsonl" in start_batch (line 511):
\* the pieces the string is made of.
BlobPath(b) == << BaseBlobPath, "/", b, ".jsonl" >>
\* The same expression in process_batch (line 526), handed to _upload_records.
TargetStage(b) == << BaseBlobPath, "/", b, ".jsonl" >>
StagePaths == { BlobPath(b) : b \in 1..MaxBatches } \cup { TargetStage(b) : b \in 1..MaxBatches }
\* A staging object: absent, or the lines written and the batches that wrote it.
NoBlob == [present |-> FALSE, data |-> << >>, by |-> {}]

NoBuf == [present |-> FALSE, data |-> << >>, pos |-> 0]
NewBytesIO == [present |-> TRUE, data |-> << >>, pos |-> 0]
BufWrite(b, l) ==
    [b EXCEPT !.data = IF b.pos < Len(b.data)
                          THEN [b.data EXCEPT ![b.pos + 1] = l]
                          ELSE Append(b.data, l),
              !.pos = b.pos + 1]
BufSeek0(b) == [b EXCEPT !.pos = 0]

\* ------------------------------------------------ BaseBigQuerySink.__init__

\* job_queue: BigQueryStreamingSink declares a class attribute holding a list;
\* __init__ then binds the instance attribute to a set for every sink class, and
\* attribute lookup finds the instance attribute first.
ClassJobQueueType(s) == IF s = "Streaming" THEN "list" ELSE "unset"
InstanceJobQueueType(s) == "set"
JobQueueType(s) == IF InstanceJobQueueType(s) # "unset" THEN InstanceJobQueueType(s)
                   ELSE ClassJobQueueType(s)

InitSink ==
    /\ strategy \in Strategies
    /\ threads = MaxThreads
    /\ dataset_ref = FALSE
    /\ table_ref = FALSE
    /\ job_queue = {}
    /\ records_to_drain = << >>
    /\ current_size = 0
    /\ draining = FALSE
    /\ pending = 0
    /\ started = FALSE
    /\ buf = NoBuf
    /\ cur = 0
    /\ pc = "idle"
    /\ attempt = 0
    /\ awaiting = 0
    /\ upload_exc = "none"
    /\ jobs = << >>
    /\ cb_pending = {}
    /\ staged = [p \in StagePaths |-> NoBlob]
    /\ written = {}
    /\ next_batch = 1
    /\ next_rec = 1
    /\ accepted = [b \in 1..MaxBatches |-> << >>]
    /\ errored = {}
    /\ last_call = "none"
    /\ last_result = "ok"
    /\ mt = << >>
    /\ mt_calls = << >>
    /\ created_ds = 0
    /\ created_tb = 0
    /\ reserialized = {}

\* The sink as the record source drives it.
Init ==
    /\ InitSink
    /\ contains_coerced_field \in BOOLEAN
    /\ done = "" /\ NamesUnused /\ SchemaUnused /\ EvolveUnused /\ HttpUnused
    /\ key_properties \in (IF strategy = "Streaming" THEN KeyPropertyLists ELSE { << >> })

\* ------------------------------------------------------------ _make_target

\* A guard that creates the dataset on every run.
DatasetRefIsNone_Always(ds) == TRUE

\* if self._dataset_ref is None / if self._table_ref is None
DatasetRefIsNone(ds) == ~ds
TableRefIsNone(tb) == ~tb

RemoteCall(op, out) == [op |-> op, out |-> out]

\* One run of the body. outs: the outcomes of the remote calls it makes, in order.
\* A reference is bound only when its create call returns.
MakeTargetBody(ds, tb, outs) ==
    LET c1 == IF DatasetRefIsNone(ds) THEN << RemoteCall("create_dataset", outs[1]) >>
              ELSE << >>
    IN IF c1 # << >> /\ outs[1] # "ok"
       THEN [ds |-> ds, tb |-> tb, exc |-> outs[1], used |-> 1, calls |-> c1]
       ELSE LET ds1 == ds \/ c1 # << >>
                o2 == outs[Len(c1) + 1]
                c2 == IF TableRefIsNone(tb) THEN << RemoteCall("create_table", o2) >>
                      ELSE << >>
            IN IF c2 # << >> /\ o2 # "ok"
               THEN [ds |-> ds1, tb |-> tb, exc |-> o2, used |-> Len(c1) + 1,
                     calls |-> c1 \o c2]
               ELSE [ds |-> ds1, tb |-> tb \/ c2 # << >>, exc |-> "none",
                     used |-> Len(c1) + Len(c2), calls |-> c1 \o c2]

\* A retry predicate that retries on every exception.
MakeTargetShouldRetry_AnyException(exc, n) == exc # "none" /\ n < MakeTargetAttempts

\* tenacity: retry on a connection-class exception, stop_after_attempt(2), reraise.
MakeTargetShouldRetry(exc, n) == RetryIfException(exc) /\ n < MakeTargetAttempts

RECURSIVE MakeTargetRetry(_, _, _, _, _, _)
MakeTargetRetry(ds, tb, outs, n, excs, calls) ==
    LET r == MakeTargetBody(ds, tb, outs) IN
    IF MakeTargetShouldRetry(r.exc, n)
    THEN MakeTargetRetry(r.ds, r.tb, Drop(outs, r.used), n + 1, Append(excs, r.exc),
                         calls \o r.calls)
    ELSE [ds |-> r.ds, tb |-> r.tb, exc |-> r.exc, excs |-> Append(excs, r.exc),
          calls |-> calls \o r.calls]

\* How many of the calls in a log were successful calls of op.
Succeeded(calls, op) ==
    Cardinality({ i \in 1..Len(calls) : calls[i].op = op /\ calls[i].out = "ok" })

\* Enough outcomes for every remote call _make_target can make.
MakeTargetInputs == [1..(2 * MakeTargetAttempts) -> RemoteOutcomes]

\* Every way a call of _make_target can end, over all outcomes of its remote calls.
MakeTargetTable ==
    [ ds \in BOOLEAN, tb \in BOOLEAN |->
        { MakeTargetRetry(ds, tb, outs, 1, << >>, << >>) : outs \in MakeTargetInputs } ]
MakeTargetResults(ds, tb) == MakeTargetTable[ds, tb]

\* self._make_target() as start_batch calls it: r is the way the call ends.
MakeTarget(r) ==
    /\ dataset_ref' = r.ds /\ table_ref' = r.tb
    /\ mt' = r.excs /\ mt_calls' = r.calls
    /\ created_ds' = created_ds + Succeeded(r.calls, "create_dataset")
    /\ created_tb' = created_tb + Succeeded(r.calls, "create_table")

\* --------------------------------------------------------- the caller's side

\* The caller makes a new batch context: a batch id, no "records" key yet.
NewContext ==
    /\ pc = "idle" /\ pending = 0 /\ next_batch <= MaxBatches
    /\ pending' = next_batch
    /\ next_batch' = next_batch + 1
    /\ started' = FALSE
    /\ buf' = NoBuf
    /\ UNCHANGED << strategy, threads, dataset_ref, table_ref, job_queue, records_to_drain,
                    current_size, draining, cur, pc, attempt, upload_exc, awaiting, jobs, cb_pending,
                    staged, written, next_rec, accepted, errored, last_call, last_result, mt, mt_calls,
                    created_ds, created_tb, contains_coerced_field,
                    reserialized, pureVars >>

\* Sink.start_drain() / Sink.mark_drained() of the base class, as the sinks call them.
StartDrain == draining' = TRUE /\ pending' = 0
MarkDrained == draining' = FALSE /\ current_size' = 0

\* ------------------------------- start_batch of Streaming and BufferedLoad

Throttled == Cardinality(job_queue) >= threads

StartBatchThrottled(s) ==
    /\ strategy = s /\ pc = "idle" /\ pending # 0 /\ ~started
    /\ \E r \in MakeTargetResults(dataset_ref, table_ref) :
         /\ MakeTarget(r)
         /\ last_call' = "start_batch" /\ cur' = pending
         /\ IF r.exc # "none"
            THEN /\ last_result' = r.exc /\ errored' = errored \cup {pending}
                 /\ pending' = 0 /\ UNCHANGED << started, pc >>
            ELSE /\ UNCHANGED << errored, pending >>
                 /\ IF Throttled
                    THEN pc' = "throttle" /\ last_result' = "blocked" /\ UNCHANGED started
                    ELSE pc' = "idle" /\ last_result' = "ok" /\ started' = TRUE
    /\ UNCHANGED << strategy, threads, job_queue, records_to_drain, current_size, draining,
                    buf, attempt, upload_exc, awaiting, jobs, cb_pending, staged, written, next_batch,
                    next_rec, accepted, contains_coerced_field,
                    reserialized, pureVars >>

StreamingStartBatch == StartBatchThrottled("Streaming")
BatchStartBatch == StartBatchThrottled("BufferedLoad")

\* The while loop of start_batch: it leaves once the queue has slack.
ThrottleExit ==
    /\ pc = "throttle" /\ ~Throttled
    /\ pc' = "idle" /\ started' = TRUE /\ last_result' = "ok"
    /\ UNCHANGED << strategy, threads, dataset_ref, table_ref, job_queue, records_to_drain,
                    current_size, draining, pending, buf, cur, attempt, upload_exc, awaiting, jobs,
                    cb_pending, staged, written, next_batch, next_rec, accepted, errored,
                    last_call, mt, mt_calls,
                    created_ds, created_tb, contains_coerced_field,
                    reserialized, pureVars >>

\* ---------------------------------------------------------- process_record

\* A gate that never re-serializes.
Reserializes_Never(flag) == FALSE

\* preprocess_record: if self._contains_coerced_field
Reserializes(flag) == flag

\* The caller passes the record through preprocess_record, tallies it
\* (current_size) and hands it to process_record.
StreamingProcessRecord ==
    /\ strategy = "Streaming" /\ pc = "idle" /\ pending # 0 /\ next_rec <= MaxRecords
    /\ records_to_drain' = Append(records_to_drain, next_rec)
    /\ current_size' = current_size + 1
    /\ accepted' = [accepted EXCEPT ![pending] = Append(@, next_rec)]
    /\ next_rec' = next_rec + 1
    /\ reserialized' = IF Reserializes(contains_coerced_field)
                       THEN reserialized \cup {next_rec} ELSE reserialized
    /\ last_call' = "process_record" /\ last_result' = "ok"
    /\ UNCHANGED << strategy, threads, dataset_ref, table_ref, job_queue, draining, pending,
                    started, buf, cur, pc, attempt, upload_exc, awaiting, jobs, cb_pending, staged,
                    written, next_batch, errored, mt, mt_calls,
                    created_ds, created_tb, contains_coerced_field,
                    pureVars >>

BufferRecord(s) ==
    /\ strategy = s /\ pc = "idle" /\ pending # 0 /\ next_rec <= MaxRecords
    /\ buf' = BufWrite(IF buf.present THEN buf ELSE NewBytesIO, JsonLine(next_rec))
    /\ current_size' = current_size + 1
    /\ accepted' = [accepted EXCEPT ![pending] = Append(@, next_rec)]
    /\ next_rec' = next_rec + 1
    /\ reserialized' = IF Reserializes(contains_coerced_field)
                       THEN reserialized \cup {next_rec} ELSE reserialized
    /\ last_call' = "process_record" /\ last_result' = "ok"
    /\ UNCHANGED << strategy, threads, dataset_ref, table_ref, job_queue, records_to_drain,
                    draining, pending, started, cur, pc, attempt, upload_exc, awaiting, jobs, cb_pending,
                    staged, written, next_batch, errored, mt, mt_calls,
                    created_ds, created_tb, contains_coerced_field,
                    pureVars >>

BatchProcessRecord == BufferRecord("BufferedLoad")
GcsProcessRecord == BufferRecord("StagedLoad")

\* ------------------------------------------------ Streaming: process_batch

\* A caller-visible call ends by raising exc for batch b.
Raises(b, exc) == last_result' = exc /\ errored' = errored \cup {b}

NewJob(kind, b, payload, st) ==
    [kind |-> kind, batch |-> b, payload |-> payload, status |-> st,
     attempts |-> 0, last |-> "none", source |-> << >>, row_ids |-> RowIdsArgument(<< >>)]

\* An early return that tests the wrong bound.
BatchIsEmpty_Negative == current_size < 0

\* The early return of process_batch.
BatchIsEmpty == current_size = 0

NoOp ==
    /\ last_result' = "noop"
    /\ UNCHANGED << job_queue, records_to_drain, current_size, draining, pending, started,
                    buf, pc, attempt, upload_exc, awaiting, jobs, cb_pending, errored >>

\* The upload is handed to the executor; job_queue is a set, so append raises
\* AttributeError and the rest of the method (callback, mark_drained, buffer reset)
\* does not run.
StreamingProcessBatch ==
    /\ strategy = "Streaming" /\ pc = "idle" /\ pending # 0 /\ started
    /\ BatchIsEmpty \/ Len(jobs) < MaxJobs
    /\ last_call' = "process_batch" /\ cur' = pending
    /\ IF BatchIsEmpty
       THEN NoOp
       ELSE /\ StartDrain
            /\ LET insert_ids == GenerateBatchRowIds(records_to_drain, key_properties)
               IN jobs' = Append(jobs,
                                 [NewJob("insert", pending, records_to_drain, "running")
                                    EXCEPT !.row_ids = RowIdsArgument(insert_ids)])
            /\ JobQueueType(strategy) = "set"
            /\ Raises(pending, "AttributeError")
            /\ UNCHANGED << job_queue, records_to_drain, current_size, started, buf, pc,
                            attempt, upload_exc, awaiting, cb_pending >>
    /\ UNCHANGED << strategy, threads, dataset_ref, table_ref, staged, written, next_batch,
                    next_rec, accepted, mt, mt_calls,
                    created_ds, created_tb, contains_coerced_field,
                    reserialized, pureVars >>

\* A retry predicate without retry_if_result.
InsertShouldRetry_NoResultCheck(out, n) == RetryIfException(out) /\ n < InsertAttempts

\* tenacity around Streaming _upload_records: retry on a connection-class exception
\* or on a truthy result, stop_after_attempt(5), reraise.
InsertShouldRetry(out, n) == (RetryIfException(out) \/ out = "errors") /\ n < InsertAttempts

\* One attempt of Streaming _upload_records on an executor thread: insert_rows_json
\* returns no errors ("ok"), returns a non-empty error list ("errors"), or raises.
InsertRows ==
    \E j \in 1..Len(jobs) :
      /\ jobs[j].kind = "insert" /\ jobs[j].status = "running"
      /\ \E out \in {"ok", "errors"} \cup RemoteErrors :
           LET n == jobs[j].attempts + 1
               st == IF InsertShouldRetry(out, n) THEN "running"
                     ELSE IF out = "ok" THEN "ok" ELSE "failed"
           IN /\ jobs' = [jobs EXCEPT ![j] = [@ EXCEPT !.attempts = n, !.last = out,
                                                        !.status = st]]
              /\ written' = IF out = "ok" THEN written \cup Range(jobs[j].payload)
                            ELSE written
      /\ UNCHANGED << strategy, threads, dataset_ref, table_ref, job_queue, records_to_drain,
                      current_size, draining, pending, started, buf, cur, pc, attempt, upload_exc,
                      awaiting, cb_pending, staged, next_batch, next_rec, accepted, errored,
                      last_call, last_result, mt, mt_calls,
                    created_ds, created_tb, contains_coerced_field,
                    reserialized, pureVars >>

\* ----------------------------------- BufferedLoad and StagedLoad: load jobs

\* A retry predicate that retries on every exception.
BatchUploadShouldRetry_AnyException(exc, n) == n < BatchUploadAttempts

\* tenacity around the two load _upload_records: connection-class, 5 attempts, reraise.
BatchUploadShouldRetry(exc, n) == RetryIfException(exc) /\ n < BatchUploadAttempts
GcsUploadShouldRetry(exc, n) == RetryIfException(exc) /\ n < GcsUploadAttempts
UploadShouldRetry(exc, n) ==
    IF strategy = "BufferedLoad" THEN BatchUploadShouldRetry(exc, n)
    ELSE GcsUploadShouldRetry(exc, n)

\* An exception leaves _upload_records' body: tenacity runs the body again, or the
\* exception reaches the caller of process_batch.
UploadFails(exc) ==
    IF UploadShouldRetry(exc, attempt)
    THEN /\ pc' = "upload" /\ attempt' = attempt + 1 /\ upload_exc' = exc
         /\ UNCHANGED << last_result, errored >>
    ELSE /\ pc' = "idle" /\ attempt' = 0 /\ upload_exc' = "none"
         /\ Raises(cur, exc)

\* What the load job reads: the whole buffer (rewind=True), or the staged object.
LoadSource ==
    IF strategy = "BufferedLoad" THEN [present |-> TRUE, data |-> buf.data]
    ELSE staged[TargetStage(cur)]

\* The first half of _upload_records: the job is submitted, its id is added to
\* job_queue and the done-callback is registered.  The job may already be done.
UploadSubmit ==
    /\ pc = "upload" /\ Len(jobs) < MaxJobs
    /\ \E st \in (IF LoadSource.present THEN {"running", "ok", "failed"} ELSE {"failed"}) :
         LET j == Len(jobs) + 1 IN
         /\ jobs' = Append(jobs, [NewJob("load", cur, LoadSource.data, st)
                                    EXCEPT !.source = IF strategy = "StagedLoad"
                                                      THEN TargetStage(cur) ELSE << >>])
         /\ job_queue' = job_queue \cup {j}
         /\ cb_pending' = cb_pending \cup {j}
         /\ written' = IF st = "ok" THEN written \cup Range(ParseLines(LoadSource.data))
                       ELSE written
         /\ awaiting' = j
    /\ pc' = "await"
    /\ UNCHANGED << strategy, threads, dataset_ref, table_ref, records_to_drain, current_size,
                    draining, pending, started, buf, cur, attempt, upload_exc, staged, next_batch,
                    next_rec, accepted, errored, last_call, last_result, mt, mt_calls,
                    created_ds, created_tb, contains_coerced_field,
                    reserialized, pureVars >>

\* load_table_from_file / load_table_from_uri itself raises.
UploadSubmitFails ==
    /\ pc = "upload"
    /\ \E exc \in RemoteErrors : UploadFails(exc)
    /\ UNCHANGED << strategy, threads, dataset_ref, table_ref, job_queue, records_to_drain,
                    current_size, draining, pending, started, buf, cur, awaiting, jobs,
                    cb_pending, staged, written, next_batch, next_rec, accepted, last_call,
                    mt, mt_calls,
                    created_ds, created_tb, contains_coerced_field,
                    reserialized, pureVars >>

\* job.result() returns: _upload_records returns the job and process_batch ends
\* (BufferedLoad: buf.seek(0), buf.flush(); both: mark_drained()).
UploadReturns ==
    /\ pc = "await" /\ jobs[awaiting].status = "ok"
    /\ buf' = IF strategy = "BufferedLoad" THEN BufSeek0(buf) ELSE buf
    /\ MarkDrained
    /\ pc' = "idle" /\ attempt' = 0 /\ awaiting' = 0 /\ last_result' = "ok"
    /\ upload_exc' = "none"
    /\ UNCHANGED << strategy, threads, dataset_ref, table_ref, job_queue, records_to_drain,
                    pending, started, cur, jobs, cb_pending, staged, written, next_batch,
                    next_rec, accepted, errored, last_call, mt, mt_calls,
                    created_ds, created_tb, contains_coerced_field,
                    reserialized, pureVars >>

\* job.result() raises: the job's own error, or, while the job still runs, a
\* timeout or a connection-class error of the polling.
UploadAwaitFails ==
    /\ pc = "await"
    /\ \E exc \in {"BadRequest", "TimeoutError", "ConnectionResetError"} :
         /\ exc = "BadRequest" => jobs[awaiting].status = "failed"
         /\ exc # "BadRequest" => jobs[awaiting].status = "running"
         /\ UploadFails(exc)
    /\ awaiting' = 0
    /\ UNCHANGED << strategy, threads, dataset_ref, table_ref, job_queue, records_to_drain,
                    current_size, draining, pending, started, buf, cur, jobs, cb_pending,
                    staged, written, next_batch, next_rec, accepted, last_call, mt, mt_calls,
                    created_ds, created_tb, contains_coerced_field,
                    reserialized, pureVars >>

\* The warehouse finishes a load job.
JobFinishes ==
    \E j \in 1..Len(jobs), st \in {"ok", "failed"} :
      /\ jobs[j].kind = "load" /\ jobs[j].status = "running"
      /\ jobs' = [jobs EXCEPT ![j].status = st]
      /\ written' = IF st = "ok" THEN written \cup Range(ParseLines(jobs[j].payload))
                    ELSE written
      /\ UNCHANGED << strategy, threads, dataset_ref, table_ref, job_queue, records_to_drain,
                      current_size, draining, pending, started, buf, cur, pc, attempt, upload_exc,
                      awaiting, cb_pending, staged, next_batch, next_rec, accepted, errored,
                      last_call, last_result, mt, mt_calls,
                    created_ds, created_tb, contains_coerced_field,
                    reserialized, pureVars >>

\* The done-callback of a finished load job: job_queue.discard(job_id).
DoneCallback ==
    \E j \in cb_pending :
      /\ jobs[j].status # "running"
      /\ job_queue' = job_queue \ {j}
      /\ cb_pending' = cb_pending \ {j}
      /\ UNCHANGED << strategy, threads, dataset_ref, table_ref, records_to_drain,
                      current_size, draining, pending, started, buf, cur, pc, attempt, upload_exc,
                      awaiting, jobs, staged, written, next_batch, next_rec, accepted,
                      errored, last_call, last_result, mt, mt_calls,
                    created_ds, created_tb, contains_coerced_field,
                    reserialized, pureVars >>

\* --------------------------------------------- BufferedLoad: process_batch

\* Up to the call of _upload_records: the early return, start_drain(), and the
\* lookup of context["records"] (KeyError when the context has no buffer).
BatchProcessBatch ==
    /\ strategy = "BufferedLoad" /\ pc = "idle" /\ pending # 0 /\ started
    /\ last_call' = "process_batch" /\ cur' = pending
    /\ IF BatchIsEmpty
       THEN NoOp
       ELSE /\ StartDrain
            /\ IF buf.present
               THEN /\ pc' = "upload" /\ attempt' = 1 /\ last_result' = "blocked"
                    /\ UNCHANGED errored
               ELSE /\ Raises(pending, "KeyError")
                    /\ UNCHANGED << pc, attempt >>
            /\ UNCHANGED << job_queue, records_to_drain, current_size, started, buf,
                            awaiting, upload_exc, jobs, cb_pending >>
    /\ UNCHANGED << strategy, threads, dataset_ref, table_ref, staged, written, next_batch,
                    next_rec, accepted, mt, mt_calls,
                    created_ds, created_tb, contains_coerced_field,
                    reserialized, pureVars >>

\* ------------------------------------------------ StagedLoad: start_batch

\* tenacity around _upload_to_blob: connection-class, 5 attempts, reraise.
BlobShouldRetry(exc, n) == RetryIfException(exc) /\ n < BlobUploadAttempts

\* _upload_to_blob under its retry: "ok" once the object is written, else the exception.
RECURSIVE UploadToBlobRetry(_, _)
UploadToBlobRetry(outs, n) ==
    IF BlobShouldRetry(Head(outs), n) THEN UploadToBlobRetry(Tail(outs), n + 1)
    ELSE Head(outs)

\* Every way a call of _upload_to_blob can end.
UploadToBlobResults == { UploadToBlobRetry(bouts, 1) : bouts \in OutcomeSeqs(BlobUploadAttempts) }

\* _make_target(), context["records"], _upload_to_blob(path, buf), buf.seek(0).
\* There is no throttle loop in this start_batch.
GcsStartBatch ==
    /\ strategy = "StagedLoad" /\ pc = "idle" /\ pending # 0 /\ ~started
    /\ \E r \in MakeTargetResults(dataset_ref, table_ref), w \in UploadToBlobResults :
         LET u == IF r.exc # "none" THEN r.exc
                  ELSE IF ~buf.present THEN "KeyError"
                  ELSE w
         IN /\ MakeTarget(r)
            /\ last_call' = "start_batch" /\ cur' = pending
            /\ IF u = "ok"
               THEN /\ staged' = [staged EXCEPT ![BlobPath(pending)] =
                                     [present |-> TRUE, data |-> buf.data,
                                      by |-> staged[BlobPath(pending)].by \cup {pending}]]
                    /\ buf' = BufSeek0(buf)
                    /\ started' = TRUE /\ last_result' = "ok"
                    /\ UNCHANGED << errored, pending >>
               ELSE /\ Raises(pending, u)
                    /\ pending' = 0
                    /\ UNCHANGED << staged, buf, started >>
    /\ UNCHANGED << strategy, threads, job_queue, records_to_drain, current_size, draining,
                    pc, attempt, upload_exc, awaiting, jobs, cb_pending, written, next_batch, next_rec,
                    accepted, contains_coerced_field,
                    reserialized, pureVars >>

\* ----------------------------------------------- StagedLoad: process_batch

GcsProcessBatch ==
    /\ strategy = "StagedLoad" /\ pc = "idle" /\ pending # 0 /\ started
    /\ last_call' = "process_batch" /\ cur' = pending
    /\ IF BatchIsEmpty
       THEN NoOp
       ELSE /\ StartDrain
            /\ pc' = "upload" /\ attempt' = 1 /\ last_result' = "blocked"
            /\ UNCHANGED << job_queue, records_to_drain, current_size, started, buf,
                            awaiting, upload_exc, jobs, cb_pending, errored >>
    /\ UNCHANGED << strategy, threads, dataset_ref, table_ref, staged, written, next_batch,
                    next_rec, accepted, mt, mt_calls,
                    created_ds, created_tb, contains_coerced_field,
                    reserialized, pureVars >>

\* ------------------------------------------------------- the specification

Next ==
    \/ NewContext
    \/ StreamingStartBatch
    \/ BatchStartBatch
    \/ GcsStartBatch
    \/ ThrottleExit
    \/ StreamingProcessRecord
    \/ BatchProcessRecord
    \/ GcsProcessRecord
    \/ StreamingProcessBatch
    \/ BatchProcessBatch
    \/ GcsProcessBatch
    \/ InsertRows
    \/ UploadSubmit
    \/ UploadSubmitFails
    \/ UploadReturns
    \/ UploadAwaitFails
    \/ JobFinishes
    \/ DoneCallback

Spec == Init /\ [][Next]_vars

\* ------------------------------------------------------------- the claims

JobIds == 1..Len(jobs)
LoadJobsOf(b) == { j \in JobIds : jobs[j].kind = "load" /\ jobs[j].batch = b }
Running == { j \in JobIds : jobs[j].status = "running" }
ConnectionClass(exc) == Superclasses(exc) \cap RetryTypes # {}

\* C1: the number of tokens in job_queue never exceeds config["threads"].
C1_QueueWithinThreads == Cardinality(job_queue) <= threads

\* C1 (where it does hold): the Streaming sink's queue stays within the bound.
C1_StreamingWithinThreads == strategy = "Streaming" => Cardinality(job_queue) <= threads

\* C2: once the caller holds no open batch and every job has ended, each record
\* process_record accepted is in the table, or a call for its batch raised.
Quiescent == pc = "idle" /\ pending = 0 /\ Running = {}
C2_NoRecordSilentlyDropped ==
    Quiescent =>
        \A b \in 1..MaxBatches : \A i \in 1..Len(accepted[b]) :
            accepted[b][i] \in written \/ b \in errored

\* C3: when process_batch on a non-empty batch has given control back to its
\* caller, by returning or by raising, mark_drained has run and the buffer is empty.
C3_DrainedOnReturn ==
    (pc = "idle" /\ last_call = "process_batch" /\ last_result # "noop")
        => (~draining /\ current_size = 0 /\ records_to_drain = << >>)

\* C4: a job that has been submitted and has not ended holds a token in job_queue,
\* and once every job has ended and every callback has run the queue is empty.
C4_TokenPerSubmittedJob ==
    /\ Cardinality(job_queue) >= Cardinality(Running)
    /\ \A j \in Running : jobs[j].kind = "load" => j \in job_queue
    /\ (Running = {} /\ cb_pending = {}) => job_queue = {}

\* C4 (where it does hold): the load jobs of BufferedLoad and StagedLoad.
C4_LoadJobsHoldTokens == strategy # "Streaming" => C4_TokenPerSubmittedJob

\* C5: Streaming _upload_records calls insert at most 5 times; it is called again
\* only after a connection-class error or a non-empty error list; five such
\* failures end in an error, an empty error list ends in success, and any other
\* exception is raised at once.
Retriable(out) == ConnectionClass(out) \/ out = "errors"
C5_StreamingRetry ==
    \A j \in JobIds : jobs[j].kind = "insert" =>
        LET a == jobs[j].attempts
            st == jobs[j].status
            l == jobs[j].last
        IN /\ a <= 5
           /\ (st = "running" /\ a > 0) => (Retriable(l) /\ a < 5)
           /\ (st = "failed" /\ Retriable(l)) => a = 5
           /\ (a > 0 /\ ~Retriable(l) /\ l # "ok") => st = "failed"
           /\ (st = "ok") <=> (l = "ok")
           /\ (st = "ok") => Range(jobs[j].payload) \subseteq written

\* C5, witness: every one of five attempts failed and the error left _upload_records.
C5_Witness ==
    \E j \in JobIds : /\ jobs[j].kind = "insert" /\ jobs[j].attempts = 5
                      /\ jobs[j].status = "failed" /\ jobs[j].last = "errors"

\* C6 (as claimed): a batch never has more than one admitted load job.
C6_OneLoadJobPerBatch == \A b \in 1..MaxBatches : Cardinality(LoadJobsOf(b)) <= 1

\* C6 (amended): _upload_records as a whole, submission and wait, runs at most 5
\* times per process_batch; it runs again only after a connection-class error, each
\* run admits at most one load job, and any other failure reaches the caller.
C6_WholeUploadRetried ==
    /\ attempt <= 5
    /\ pc \in {"upload", "await"} =>
          /\ attempt >= 1
          /\ Cardinality(LoadJobsOf(cur)) <= attempt
          /\ attempt > 1 => ConnectionClass(upload_exc)
          /\ attempt = 1 => upload_exc = "none"
          /\ pc = "await" => (awaiting \in LoadJobsOf(cur) /\ awaiting \in job_queue \cup
                                 { j \in JobIds : jobs[j].status # "running" })
    /\ pc \in {"idle", "throttle"} => (attempt = 0 /\ upload_exc = "none")
    /\ \A b \in 1..MaxBatches : Cardinality(LoadJobsOf(b)) <= 5

\* C6, witness: a second load job was admitted for a batch after the wait for the
\* first one failed.
C6_Witness ==
    /\ pc = "await" /\ attempt = 2 /\ Cardinality(LoadJobsOf(cur)) = 2
    /\ jobs[awaiting - 1].status = "running"

\* C7: every load job of StagedLoad reads an object that holds all the records
\* accepted for its batch.
C7_StagedObjectHoldsBatch ==
    strategy = "StagedLoad" =>
        \A j \in JobIds :
            LET b == jobs[j].batch IN
            /\ staged[BlobPath(b)].present
            /\ ParseLines(staged[BlobPath(b)].data) = accepted[b]
            /\ ParseLines(jobs[j].payload) = accepted[b]

\* C8: the payload of every Streaming or BufferedLoad transport call is exactly
\* the records accepted for its batch, in order.
PayloadRecords(j) ==
    IF jobs[j].kind = "insert" THEN jobs[j].payload ELSE ParseLines(jobs[j].payload)
C8_PayloadIsTheBatch ==
    strategy \in {"Streaming", "BufferedLoad"} =>
        \A j \in JobIds : PayloadRecords(j) = accepted[jobs[j].batch]

\* C8 (where it does hold): BufferedLoad.
C8_BufferedPayloadIsTheBatch ==
    strategy = "BufferedLoad" =>
        \A j \in JobIds : PayloadRecords(j) = accepted[jobs[j].batch]

\* C9: a process_batch call made while the batch's size counter is zero starts
\* no network operation, adds no token and leaves the batch lifecycle as it was.
ProcessBatchCall == StreamingProcessBatch \/ BatchProcessBatch \/ GcsProcessBatch
C10_MakeTargetTwoAttempts ==
    (last_call = "start_batch" /\ mt # << >>) =>
        /\ Len(mt) <= 2
        /\ (Len(mt) = 2) <=> ConnectionClass(mt[1])
        /\ mt[Len(mt)] # "none" =>
              /\ last_result = mt[Len(mt)] /\ pc = "idle"
              /\ cur \in errored /\ pending # cur
              /\ ~staged[BlobPath(cur)].present
              /\ \A j \in JobIds : jobs[j].batch # cur

\* C10, witness: both attempts raised a connection-class error and start_batch raised it.
C10_Witness ==
    /\ last_call = "start_batch" /\ Len(mt) = 2
    /\ ConnectionClass(mt[2]) /\ last_result = mt[2]

\* C11: create_dataset and create_table each succeed at most once per sink; a
\* _make_target call made when both references are bound makes no remote call and
\* leaves them bound; no call repeats a create whose reference is bound, and a retry
\* after a failed create_table does not call create_dataset again.
StartBatchCall == StreamingStartBatch \/ BatchStartBatch \/ GcsStartBatch
CallsOf(calls, op) == { i \in 1..Len(calls) : calls[i].op = op }
C11_MakeTargetIdempotent ==
    [][ /\ created_ds' <= 1 /\ created_tb' <= 1
        /\ StartBatchCall =>
             /\ (dataset_ref /\ table_ref) =>
                   (mt_calls' = << >> /\ dataset_ref' /\ table_ref')
             /\ dataset_ref => (dataset_ref' /\ CallsOf(mt_calls', "create_dataset") = {})
             /\ table_ref => (table_ref' /\ CallsOf(mt_calls', "create_table") = {})
             /\ \A i \in CallsOf(mt_calls', "create_dataset") :
                   mt_calls'[i].out = "ok" =>
                      \A j \in CallsOf(mt_calls', "create_dataset") : j <= i
             /\ created_ds' = (IF dataset_ref' THEN 1 ELSE 0)
             /\ created_tb' = (IF table_ref' THEN 1 ELSE 0) ]_vars

\* C11, witness: create_table failed after create_dataset succeeded, the retry
\* called create_table alone, and a later _make_target call made no remote call.
C11_Witness ==
    /\ last_call = "start_batch" /\ cur = 2 /\ mt_calls = << >>
    /\ created_ds = 1 /\ created_tb = 1 /\ last_result = "ok"
C11_RetryWitness ==
    mt_calls = << RemoteCall("create_dataset", "ok"),
                  RemoteCall("create_table", "ConnectionResetError"),
                  RemoteCall("create_table", "ok") >>

\* --------------------------------------------------------- safe_column_name

\* Strings are sequences of one-character strings; the grave accent (U+0060),
\* which the module's own syntax reserves, is written as this token.
Backtick == "<grave>"
UpperCase == << "A", "B", "C", "D", "E", "F", "G", "H", "I", "J", "K", "L", "M",
                "N", "O", "P", "Q", "R", "S", "T", "U", "V", "W", "X", "Y", "Z" >>
LowerCase == << "a", "b", "c", "d", "e", "f", "g", "h", "i", "j", "k", "l", "m",
                "n", "o", "p", "q", "r", "s", "t", "u", "v", "w", "x", "y", "z" >>
Digits == { "0", "1", "2", "3", "4", "5", "6", "7", "8", "9" }

\* The characters the pattern [^a-zA-Z0-9_] does not match.
WordChars == Range(UpperCase) \cup Range(LowerCase) \cup Digits \cup { "_" }

\* name.replace(<grave>, "")
RECURSIVE RemoveChar(_, _)
RemoveChar(str, c) ==
    IF str = << >> THEN << >>
    ELSE IF Head(str) = c THEN RemoveChar(Tail(str), c)
    ELSE << Head(str) >> \o RemoveChar(Tail(str), c)

\* re.sub("[^a-zA-Z0-9_]", "_", name)
ReSubNonWord(str) == [ i \in 1..Len(str) |-> IF str[i] \in WordChars THEN str[i] ELSE "_" ]

\* A lower() that leaves every character as it is.
LowerChar_Identity(c) == c

\* str.lower(), one character
LowerChar(c) ==
    IF \E i \in 1..Len(UpperCase) : UpperCase[i] = c
    THEN LowerCase[CHOOSE i \in 1..Len(UpperCase) : UpperCase[i] = c]
    ELSE c
Lower(str) == [ i \in 1..Len(str) |-> LowerChar(str[i]) ]

SafeColumnName(n, q) ==
    LET replaced == ReSubNonWord(RemoveChar(n, Backtick))
    IN IF q THEN Lower(<< Backtick >> \o replaced \o << Backtick >>)
       ELSE Lower(replaced)

\* The names the function is applied to: every string over these characters, up
\* to a length.
MaxNameLen == 3
NameChars == { "a", "Z", "7", "_", "-", "!", Backtick }
RECURSIVE StringsOfLen(_, _)
StringsOfLen(chars, n) ==
    IF n = 0 THEN { << >> }
    ELSE { << c >> \o t : c \in chars, t \in StringsOfLen(chars, n - 1) }
ExampleName == << "U", "s", "e", "r", "-", "N", "a", "m", "e", "!" >>
Names == UNION { StringsOfLen(NameChars, n) : n \in 0..MaxNameLen } \cup { ExampleName }

InitNames ==
    /\ InitSink /\ strategy = "Streaming"
    /\ done = ""
    /\ name \in Names /\ quotes \in BOOLEAN /\ safe = << >>
    /\ contains_coerced_field = FALSE /\ SchemaUnused /\ OthersUnused

CallSafeColumnName ==
    /\ done = ""
    /\ safe' = SafeColumnName(name, quotes)
    /\ done' = "safe_column_name"
    /\ UNCHANGED << name, quotes, contains_coerced_field, schemaVars, otherVars, sinkVars >>

NextNames == CallSafeColumnName
SpecNames == InitNames /\ [][NextNames]_vars

\* ------------------------------------------------------ schema translation

\* A JSON-schema property is a dict: keys is the set of keys it has; type is the
\* declared type set (a plain type name is the set of that name), format the
\* declared format, properties the ordered (name, property) pairs, items the
\* items sub-schema (a sequence of at most one property).
NoFormat == "None"
SchemaProperty(keys, type, format, properties, items) ==
    [keys |-> keys, type |-> type, format |-> format, properties |-> properties,
     items |-> items]
Scalar(type) == SchemaProperty({"type"}, type, NoFormat, << >>, << >>)
ObjectOf(properties) ==
    SchemaProperty({"type", "properties"}, {"object"}, NoFormat, properties, << >>)
ArrayOf(items) == SchemaProperty({"type", "items"}, {"array"}, NoFormat, << >>, << items >>)
BareObject == Scalar({"object"})
BareArray == Scalar({"array"})

\* dict.get(key, default) on the keys of a property
GetType(p) == IF "type" \in p.keys THEN p.type ELSE {"string"}
GetFormat(p) == IF "format" \in p.keys THEN p.format ELSE NoFormat
GetProperties(p) == IF "properties" \in p.keys THEN p.properties ELSE << >>

\* A precedence in which the integer test comes before the integer-and-string test.
BigqueryType_IntegerFirst(property_type, property_format) ==
    IF property_format = "date-time" THEN "timestamp"
    ELSE IF property_format = "date" THEN "date"
    ELSE IF property_format = "time" THEN "time"
    ELSE IF "number" \in property_type THEN "float64"
    ELSE IF "integer" \in property_type THEN "integer"
    ELSE IF "boolean" \in property_type THEN "boolean"
    ELSE IF "object" \in property_type THEN "record"
    ELSE "string"

BigqueryType(property_type, property_format) ==
    IF property_format = "date-time" THEN "timestamp"
    ELSE IF property_format = "date" THEN "date"
    ELSE IF property_format = "time" THEN "time"
    ELSE IF "number" \in property_type THEN "float64"
    ELSE IF "integer" \in property_type /\ "string" \in property_type THEN "string"
    ELSE IF "integer" \in property_type THEN "integer"
    ELSE IF "boolean" \in property_type THEN "boolean"
    ELSE IF "object" \in property_type THEN "record"
    ELSE "string"

\* bigquery.SchemaField(name, field_type, mode, fields=...)
SchemaField(n, field_type, mode, fields) ==
    [name |-> n, field_type |-> field_type, mode |-> mode, fields |-> fields]

\* A translation result: the column, and whether _contains_coerced_field was set.
Translated(col, coerced) == [col |-> col, coerced |-> coerced]

RECURSIVE JsonschemaPropToBqColumn(_, _)
RECURSIVE TranslateRecordToBqSchema(_, _, _)

JsonschemaPropToBqColumn(n, schema_property) ==
    LET safe_name == SafeColumnName(n, FALSE)
        property_type == GetType(schema_property)
        property_format == GetFormat(schema_property)
    IN IF "array" \in property_type
       THEN IF "items" \notin schema_property.keys
               \/ "type" \notin schema_property.items[1].keys
            THEN \* KeyError
                 Translated(SchemaField(safe_name, "string", "NULLABLE", << >>), TRUE)
            ELSE LET items_schema == schema_property.items[1]
                     items_type == BigqueryType(items_schema.type, GetFormat(items_schema))
                 IN IF items_type = "record"
                    THEN TranslateRecordToBqSchema(safe_name, items_schema, "REPEATED")
                    ELSE Translated(SchemaField(safe_name, items_type, "REPEATED", << >>),
                                    FALSE)
       ELSE IF "object" \in property_type
       THEN TranslateRecordToBqSchema(safe_name, schema_property, "NULLABLE")
       ELSE Translated(SchemaField(safe_name, BigqueryType(property_type, property_format),
                                   "NULLABLE", << >>), FALSE)

TranslateRecordToBqSchema(safe_name, schema_property, mode) ==
    LET props == GetProperties(schema_property)
        sub == [ i \in 1..Len(props) |-> JsonschemaPropToBqColumn(props[i][1], props[i][2]) ]
        fields == [ i \in 1..Len(sub) |-> sub[i].col ]
        inner == \E i \in 1..Len(sub) : sub[i].coerced
    IN IF fields # << >>
       THEN Translated(SchemaField(safe_name, "RECORD", mode, fields), inner)
       ELSE Translated(SchemaField(safe_name, "string", mode, << >>), TRUE)

\* __init__: the flag starts False and bigquery_schema is the translation of each
\* property of schema["properties"].
ConstructSchema(properties) ==
    LET sub == [ i \in 1..Len(properties) |->
                    JsonschemaPropToBqColumn(properties[i][1], properties[i][2]) ]
    IN [bigquery_schema |-> [ i \in 1..Len(sub) |-> sub[i].col ],
        contains_coerced_field |-> \E i \in 1..Len(sub) : sub[i].coerced]

\* ---------------------------------------------------- _parse_json_with_props

\* JSON values: k is the Python type, v the characters of a str or an int, the
\* ordered (name, value) pairs of a dict, or the elements of a list.
PyStr(chars) == [k |-> "str", v |-> chars]
PyInt(digits) == [k |-> "int", v |-> digits]
PyDict(pairs) == [k |-> "dict", v |-> pairs]
PyList(elems) == [k |-> "list", v |-> elems]
\* An exception that left the function.
Exc(e) == [k |-> "exc", v |-> << e >>]

\* orjson.dumps(value).decode("utf-8"): the compact JSON text, as characters.
\* (The strings used here hold no character that JSON escapes.)
RECURSIVE JsonText(_)
JsonText(value) ==
    CASE value.k = "str" -> << "\"" >> \o value.v \o << "\"" >>
      [] value.k = "int" -> value.v
      [] value.k = "dict" ->
            << "{" >>
            \o Join(<< "," >>,
                    [ i \in 1..Len(value.v) |->
                          << "\"" >> \o value.v[i][1] \o << "\"", ":" >>
                          \o JsonText(value.v[i][2]) ])
            \o << "}" >>
      [] value.k = "list" ->
            << "[" >>
            \o Join(<< "," >>, [ i \in 1..Len(value.v) |-> JsonText(value.v[i]) ])
            \o << "]" >>
OrjsonDumps(value) == PyStr(JsonText(value))

\* The second argument of _parse_json_with_props is a dict that .get(name) is
\* called on: a "properties" mapping of names to properties, or (from the array
\* branch) an items sub-schema itself, whose keys are "type", "format",
\* "properties" and "items".  Field names are taken not to be one of those four
\* words, so a lookup in an items sub-schema finds nothing.
PropertiesMap(pairs) == [kind |-> "properties", pairs |-> pairs]
ItemsSchema(p) == [kind |-> "items", pairs |-> << >>]
HasName(pairs, n) == \E i \in 1..Len(pairs) : pairs[i][1] = n
Lookup(pairs, n) == pairs[CHOOSE i \in 1..Len(pairs) : pairs[i][1] = n][2]

\* _prop_spec.get(name), and "if prop_spec:" (a dict with at least one key)
FindsPropSpec(prop_map, n) ==
    /\ prop_map.kind = "properties"
    /\ HasName(prop_map.pairs, n)
    /\ Lookup(prop_map.pairs, n).keys # {}

RECURSIVE ParseJsonWithProps(_, _)
RECURSIVE ParseField(_, _, _)
RECURSIVE ParseItems(_, _)

\* The loop over record.items(): the fields are rewritten in order; an exception
\* ends the loop and leaves the function.
ParseJsonWithProps(rec, prop_map) ==
    IF rec.k # "dict" THEN Exc("AttributeError")   \* record.items()
    ELSE LET fields == [ i \in 1..Len(rec.v) |->
                           ParseField(rec.v[i][1], rec.v[i][2], prop_map) ]
         IN IF \E i \in 1..Len(fields) : fields[i].k = "exc"
            THEN fields[CHOOSE i \in 1..Len(fields) :
                           /\ fields[i].k = "exc"
                           /\ \A j \in 1..(i - 1) : fields[j].k # "exc"]
            ELSE PyDict([ i \in 1..Len(fields) |-> << rec.v[i][1], fields[i] >> ])

\* The body of the loop for one field: the value record[name] holds afterwards.
ParseField(n, contents, prop_map) ==
    IF ~FindsPropSpec(prop_map, n) THEN contents
    ELSE LET prop_spec == Lookup(prop_map.pairs, n) IN
         IF "type" \notin prop_spec.keys THEN Exc("KeyError")   \* prop_spec["type"]
         ELSE IF "object" \in prop_spec.type /\ contents.k = "dict"
                 /\ GetProperties(prop_spec) = << >>
         THEN OrjsonDumps(contents)
         ELSE IF "object" \in prop_spec.type /\ contents.k = "dict"
         THEN ParseJsonWithProps(contents, PropertiesMap(prop_spec.properties))
         ELSE IF "array" \in prop_spec.type /\ contents.k = "list"
         THEN IF "items" \in prop_spec.keys /\ prop_spec.items[1].keys # {}
              THEN ParseItems(contents, ItemsSchema(prop_spec.items[1]))
              ELSE OrjsonDumps(contents)
         ELSE contents

\* [self._parse_json_with_props(item, prop_spec["items"]) for item in contents]
ParseItems(contents, prop_map) ==
    LET items == [ i \in 1..Len(contents.v) |-> ParseJsonWithProps(contents.v[i], prop_map) ]
    IN IF \E i \in 1..Len(items) : items[i].k = "exc"
       THEN items[CHOOSE i \in 1..Len(items) :
                     /\ items[i].k = "exc"
                     /\ \A j \in 1..(i - 1) : items[j].k # "exc"]
       ELSE PyList(items)

\* preprocess_record
PreprocessRecord(flag, rec, properties) ==
    IF Reserializes(flag) THEN ParseJsonWithProps(rec, PropertiesMap(properties)) ELSE rec

\* --------------------------------------- construction and preprocess_record

\* __init__ (lines 84-91): the flag is cleared and the schema is translated.
Construct ==
    /\ done = ""
    /\ LET c == ConstructSchema(schema)
       IN /\ bigquery_schema' = c.bigquery_schema
          /\ contains_coerced_field' = c.contains_coerced_field
    /\ done' = "__init__"
    /\ UNCHANGED << schema, record, returned, nameVars, otherVars, sinkVars >>

CallPreprocessRecord ==
    /\ done = "__init__"
    /\ returned' = PreprocessRecord(contains_coerced_field, record, schema)
    /\ done' = "preprocess_record"
    /\ UNCHANGED << schema, record, bigquery_schema, contains_coerced_field, nameVars, otherVars,
                    sinkVars >>

\* The schemas preprocess_record is checked on: properties nested up to a depth.
MaxDepth == 2
FieldA == << "a" >>
FieldB == << "b" >>
FieldX == << "x" >>
\* An array whose items sub-schema declares no type.
ArrayOfUntyped ==
    SchemaProperty({"type", "items"}, {"array"}, NoFormat, << >>,
                   << SchemaProperty({"format"}, {}, "date", << >>, << >>) >>)
LeafProperties ==
    { Scalar({"string"}), Scalar({"integer"}), BareObject, BareArray, ArrayOfUntyped,
      SchemaProperty({"format"}, {}, "date-time", << >>, << >>) }
RECURSIVE PropertiesOfDepth(_)
PropertiesOfDepth(d) ==
    IF d = 0 THEN LeafProperties
    ELSE LeafProperties
         \cup { ObjectOf(<< << FieldX, q >> >>) : q \in PropertiesOfDepth(d - 1) }
         \cup { ArrayOf(q) : q \in PropertiesOfDepth(d - 1) }
RecordSchemas ==
    { << << FieldA, q >> >> : q \in PropertiesOfDepth(MaxDepth) }
    \cup { << << FieldA, q >>, << FieldB, BareObject >> >> : q \in PropertiesOfDepth(MaxDepth) }

\* A value that conforms to a property: a one-element list for an array, a dict
\* with every declared field for an object (one arbitrary field when none is
\* declared), an int or a str otherwise.
UsableItems(q) == "items" \in q.keys /\ "type" \in q.items[1].keys
RECURSIVE SampleValue(_)
SampleValue(q) ==
    IF "array" \in GetType(q)
    THEN IF UsableItems(q)
         THEN PyList(<< SampleValue(q.items[1]) >>)
         ELSE PyList(<< PyInt(<< "1" >>) >>)
    ELSE IF "object" \in GetType(q)
    THEN IF GetProperties(q) # << >>
         THEN PyDict([ i \in 1..Len(q.properties) |->
                         << q.properties[i][1], SampleValue(q.properties[i][2]) >> ])
         ELSE PyDict(<< << << "k" >>, PyInt(<< "1" >>) >> >>)
    ELSE IF "integer" \in GetType(q) THEN PyInt(<< "1" >>)
    ELSE PyStr(<< "s" >>)
SampleRecord(properties) ==
    PyDict([ i \in 1..Len(properties) |-> << properties[i][1], SampleValue(properties[i][2]) >> ])

InitRecord ==
    /\ InitSink /\ strategy = "Streaming"
    /\ done = "" /\ NamesUnused /\ OthersUnused
    /\ schema \in RecordSchemas
    /\ record = SampleRecord(schema)
    /\ contains_coerced_field = FALSE
    /\ bigquery_schema = << >> /\ returned = << >>

NextRecord == Construct \/ CallPreprocessRecord
SpecRecord == InitRecord /\ [][NextRecord]_vars

\* ------------------------------------------------- translation of one property

\* The declared types and formats a property is drawn from.
Formats == { NoFormat, "date-time", "date", "time", "uuid" }
ChildProperties == { << >>, << << FieldX, Scalar({"string"}) >> >>, << << FieldX, BareObject >> >> }
KeysOf(typed, f, p, items) ==
    (IF typed THEN { "type" } ELSE {})
    \cup (IF f # NoFormat THEN { "format" } ELSE {})
    \cup (IF p # << >> THEN { "properties" } ELSE {})
    \cup (IF items # << >> THEN { "items" } ELSE {})
\* Properties that are not arrays: any set of declared types or none, any format,
\* with or without child properties.
PlainProperties ==
    { SchemaProperty(KeysOf(TRUE, f, p, << >>), t, f, p, << >>) :
        t \in SUBSET { "string", "integer", "number", "boolean", "object", "null" }, f \in Formats, p \in ChildProperties }
    \cup { SchemaProperty(KeysOf(FALSE, f, p, << >>), {}, f, p, << >>) :
             f \in Formats, p \in ChildProperties }
\* Arrays: without items, or with any plain property as the items sub-schema.
ArrayProperties ==
    { SchemaProperty(KeysOf(TRUE, f, << >>, items), { "array" } \cup extra, f, << >>, items) :
        extra \in { {}, { "null" }, { "object" } }, f \in { NoFormat, "date-time" },
        items \in { << >> } \cup { << q >> : q \in PlainProperties } }
TranslateSchemas == { << << FieldA, q >> >> : q \in PlainProperties \cup ArrayProperties }

InitTranslate ==
    /\ InitSink /\ strategy = "Streaming"
    /\ done = "" /\ NamesUnused /\ OthersUnused
    /\ schema \in TranslateSchemas
    /\ record = PyDict(<< >>)
    /\ contains_coerced_field = FALSE
    /\ bigquery_schema = << >> /\ returned = << >>

NextTranslate == Construct
SpecTranslate == InitTranslate /\ [][NextTranslate]_vars

\* ------------------------------------------------------------ _evolve_schema

MaxColumns == 2
MaxEvolveCalls == 2

\* expected_field in original_schema (SchemaField equality)
Contains(fields, field) == \E i \in 1..Len(fields) : fields[i] = field
HasColumnNamed(fields, n) == \E i \in 1..Len(fields) : fields[i].name = n

\* "mut_field = expected_field" (line 215) binds the loop variable to the expected
\* field; the list it iterates over keeps the element it had.
AssignLoopVariable(mutable_schema, expected_field) == mutable_schema

\* The loop of lines 209-220 over self.bigquery_schema.
RECURSIVE EvolveLoop(_, _, _, _)
EvolveLoop(expected, original_schema, mutable_schema, detected_change) ==
    IF expected = << >>
    THEN [mutable_schema |-> mutable_schema, detected_change |-> detected_change]
    ELSE LET expected_field == Head(expected) IN
         IF Contains(original_schema, expected_field)
         THEN EvolveLoop(Tail(expected), original_schema, mutable_schema, detected_change)
         ELSE EvolveLoop(Tail(expected), original_schema,
                         IF HasColumnNamed(mutable_schema, expected_field.name)
                         THEN AssignLoopVariable(mutable_schema, expected_field)  \* break
                         ELSE Append(mutable_schema, expected_field),             \* for-else
                         Append(detected_change, expected_field.name))

\* How update_table can end: it returns, or raises after its own retries.
UpdateOutcomes == { "none", "GoogleAPICallError" }

\* One call of _evolve_schema.  The local schema is assigned (line 222) before
\* update_table is called (line 223).
EvolveSchema(outcome) ==
    /\ Len(evolve_log) < MaxEvolveCalls
    /\ LET r == EvolveLoop(bigquery_schema, table_schema, table_schema, << >>)
       IN IF r.detected_change # << >>
          THEN /\ table_schema' = r.mutable_schema
               /\ evolve_log' = Append(evolve_log,
                                       [before |-> table_schema,
                                        submitted |-> << r.mutable_schema >>,
                                        exc |-> outcome,
                                        after |-> r.mutable_schema])
          ELSE /\ outcome = "none"
               /\ table_schema' = table_schema
               /\ evolve_log' = Append(evolve_log,
                                       [before |-> table_schema, submitted |-> << >>,
                                        exc |-> "none", after |-> table_schema])
    /\ UNCHANGED << done, nameVars, schemaVars, httpVars, contains_coerced_field, sinkVars >>

\* Live and desired schemas: up to MaxColumns columns with distinct names.
Columns ==
    { SchemaField(n, t, "NULLABLE", << >>) :
        n \in { << "a" >>, << "b" >>, << "c" >> }, t \in { "string", "integer" } }
ColumnLists(lens) ==
    { fs \in UNION { [1..k -> Columns] : k \in lens } :
        \A i, j \in 1..Len(fs) : fs[i].name = fs[j].name => i = j }

InitEvolve ==
    /\ InitSink /\ strategy = "Streaming"
    /\ done = "" /\ NamesUnused /\ HttpUnused /\ key_properties = << >>
    /\ contains_coerced_field = FALSE
    /\ schema = << >> /\ record = << >> /\ returned = << >>
    /\ bigquery_schema \in ColumnLists(1..MaxColumns)
    /\ table_schema \in ColumnLists(0..MaxColumns)
    /\ evolve_log = << >>

NextEvolve == \E outcome \in UpdateOutcomes : EvolveSchema(outcome)
SpecEvolve == InitEvolve /\ [][NextEvolve]_vars

\* ------------------------------------ Streaming _upload_records: _http.json

\* The pool threads that each run one _upload_records call under its retry.
MaxWorkers == 2
Workers == 1..MaxWorkers
\* What _upload_records does not touch.
notHttpVars == << done, nameVars, schemaVars, evolveVars, contains_coerced_field, sinkVars >>

\* cached_ref = _http.json (line 267)
ReadRef(w) ==
    /\ wpc[w].at = "start"
    /\ cached_ref' = [cached_ref EXCEPT ![w] = http_json]
    /\ wpc' = [wpc EXCEPT ![w].at = "cached"]
    /\ UNCHANGED << http_json, notHttpVars >>

\* _http.json = orjson (line 268)
Patch(w) ==
    /\ wpc[w].at = "cached"
    /\ http_json' = "orjson"
    /\ wpc' = [wpc EXCEPT ![w].at = "patched"]
    /\ UNCHANGED << cached_ref, notHttpVars >>

\* insert_rows_json returns (lines 271-279): the restore comes next.
InsertReturns(w, errors) ==
    /\ wpc[w].at = "patched"
    /\ wpc' = [wpc EXCEPT ![w].at = "restore", ![w].result = errors]
    /\ UNCHANGED << http_json, cached_ref, notHttpVars >>

\* insert_rows_json raises: the exception leaves the function from line 271, and
\* tenacity runs the function again or lets the exception out.
InsertRaises(w, exc) ==
    /\ wpc[w].at = "patched"
    /\ wpc' = [wpc EXCEPT ![w] = IF InsertShouldRetry(exc, @.n)
                                 THEN [at |-> "start", n |-> @.n + 1, result |-> "ok"]
                                 ELSE [at |-> "done", n |-> @.n, result |-> exc]]
    /\ UNCHANGED << http_json, cached_ref, notHttpVars >>

\* _http.json = cached_ref (line 282) and return errors (line 285); a truthy
\* result makes tenacity run the function again.
Restore(w) ==
    /\ wpc[w].at = "restore"
    /\ http_json' = cached_ref[w]
    /\ wpc' = [wpc EXCEPT ![w] = IF InsertShouldRetry(@.result, @.n)
                                 THEN [at |-> "start", n |-> @.n + 1, result |-> "ok"]
                                 ELSE [@ EXCEPT !.at = "done"]]
    /\ UNCHANGED << cached_ref, notHttpVars >>

InitSerializer ==
    /\ InitSink /\ strategy = "Streaming"
    /\ done = "" /\ NamesUnused /\ SchemaUnused /\ EvolveUnused
    /\ contains_coerced_field = FALSE /\ key_properties = << >>
    /\ http_json = "json"
    /\ wpc = [w \in Workers |-> [at |-> "start", n |-> 1, result |-> "ok"]]
    /\ cached_ref = [w \in Workers |-> ""]

NextSerializer ==
    \/ \E w \in Workers : ReadRef(w)
    \/ \E w \in Workers : Patch(w)
    \/ \E w \in Workers, errors \in { "ok", "errors" } : InsertReturns(w, errors)
    \/ \E w \in Workers, exc \in RemoteErrors : InsertRaises(w, exc)
    \/ \E w \in Workers : Restore(w)
SpecSerializer == InitSerializer /\ [][NextSerializer]_vars

\* -------------------------------------------------- the claims, continued

SafeChars == Range(LowerCase) \cup Digits \cup { "_" }

\* C18 (as claimed): safe_column_name(name) is over [a-z0-9_], as long as name, and
\* has "_" wherever name has a character outside [a-zA-Z0-9_].
C18_SameLengthSanitized ==
    (done = "safe_column_name" /\ ~quotes) =>
        /\ \A i \in 1..Len(safe) : safe[i] \in SafeChars
        /\ Len(safe) = Len(name)
        /\ \A i \in 1..Len(name) :
              name[i] \notin WordChars => (i <= Len(safe) /\ safe[i] = "_")

\* C18 (amended): grave accents are deleted from the name first; the result is
\* then as long as what is left, is over [a-z0-9_], has the lower-case letter for a
\* letter, the same character for a digit or "_", and "_" for any other character;
\* with quotes set, that result is wrapped in two grave accents.
IsNotBacktick(c) == c # Backtick
C18_SanitizedAfterBackticks ==
    done = "safe_column_name" =>
        LET kept == SelectSeq(name, IsNotBacktick)
            body == IF quotes THEN SubSeq(safe, 2, Len(safe) - 1) ELSE safe
        IN /\ quotes => /\ Len(safe) = Len(kept) + 2
                        /\ safe[1] = Backtick /\ safe[Len(safe)] = Backtick
           /\ Len(body) = Len(kept)
           /\ \A i \in 1..Len(body) :
                 /\ body[i] \in SafeChars
                 /\ \A k \in 1..Len(UpperCase) :
                       kept[i] \in { UpperCase[k], LowerCase[k] } => body[i] = LowerCase[k]
                 /\ kept[i] \in Digits \cup { "_" } => body[i] = kept[i]
                 /\ kept[i] \notin WordChars => body[i] = "_"
           /\ (name = ExampleName /\ ~quotes) =>
                 safe = << "u", "s", "e", "r", "_", "n", "a", "m", "e", "_" >>

\* C18, witness: a name with an upper-case letter, a grave accent and a hyphen.
C18_Witness ==
    /\ done = "safe_column_name" /\ ~quotes
    /\ name = << "Z", Backtick, "-" >> /\ safe = << "z", "_" >>

\* C14: no step of the sink changes _contains_coerced_field, and a record that
\* was buffered went through the re-serialization exactly when the flag is set.
C14_FlagFixedAndGating ==
    [][ /\ contains_coerced_field' = contains_coerced_field
        /\ \A b \in 1..MaxBatches : \A i \in 1..Len(accepted'[b]) :
              (accepted'[b][i] \in reserialized') <=> contains_coerced_field' ]_vars

\* C14, witness: with the flag set, a record was re-serialized and buffered, and
\* start_batch and process_batch have run since.
C14_Witness ==
    /\ contains_coerced_field /\ reserialized # {}
    /\ last_call = "process_batch" /\ last_result = "ok"

\* C12: every object property without properties and every array property without
\* usable items, at any depth and inside array items, sets the flag at construction;
\* preprocess_record returns the record with the JSON text of the subtree in each
\* such field and every other field as it was, and does not fail.
CoercedNode(q) ==
    \/ "array" \in GetType(q) /\ ~UsableItems(q)
    \/ "array" \notin GetType(q) /\ "object" \in GetType(q) /\ GetProperties(q) = << >>
RECURSIVE AnyCoerced(_)
AnyCoerced(q) ==
    \/ CoercedNode(q)
    \/ /\ "array" \in GetType(q) /\ UsableItems(q)
       /\ AnyCoerced(q.items[1])
    \/ /\ "array" \notin GetType(q) /\ "object" \in GetType(q)
       /\ \E i \in 1..Len(GetProperties(q)) : AnyCoerced(q.properties[i][2])
RECURSIVE Expected(_, _)
Expected(value, q) ==
    IF CoercedNode(q)
    THEN IF value.k \in {"dict", "list"} THEN OrjsonDumps(value) ELSE value
    ELSE IF "array" \in GetType(q) /\ value.k = "list"
    THEN PyList([ i \in 1..Len(value.v) |-> Expected(value.v[i], q.items[1]) ])
    ELSE IF "object" \in GetType(q) /\ value.k = "dict"
    THEN PyDict([ i \in 1..Len(value.v) |->
                    << value.v[i][1],
                       IF HasName(q.properties, value.v[i][1])
                       THEN Expected(value.v[i][2], Lookup(q.properties, value.v[i][1]))
                       ELSE value.v[i][2] >> ])
    ELSE value
C12_CoercedFieldsHoldJsonText ==
    done = "preprocess_record" =>
        /\ contains_coerced_field <=> \E i \in 1..Len(schema) : AnyCoerced(schema[i][2])
        /\ returned.k = "dict"
        /\ returned = PyDict([ i \in 1..Len(schema) |->
                                 << schema[i][1], Expected(record.v[i][2], schema[i][2]) >> ])

\* The precedence of type resolution, rule by rule: the first rule whose condition
\* holds gives the type.
PrecedenceRules(t, f) ==
    << << f = "date-time", "timestamp" >>,
       << f = "date", "date" >>,
       << f = "time", "time" >>,
       << "number" \in t, "float64" >>,
       << "integer" \in t /\ "string" \in t, "string" >>,
       << "integer" \in t, "integer" >>,
       << "boolean" \in t, "boolean" >>,
       << "object" \in t, "record" >>,
       << TRUE, "string" >> >>
ClaimedType(t, f) ==
    LET r == PrecedenceRules(t, f)
    IN r[CHOOSE i \in 1..Len(r) : r[i][1] /\ \A j \in 1..(i - 1) : ~r[j][1]][2]
RECURSIVE NoEmptyRecord(_)
NoEmptyRecord(col) ==
    /\ col.field_type = "RECORD" => col.fields # << >>
    /\ \A i \in 1..Len(col.fields) : NoEmptyRecord(col.fields[i])
\* The column of a record-typed schema: RECORD of its children, or a coerced string.
RecordOrCoerced(col, q, mode, flag) ==
    IF GetProperties(q) = << >>
    THEN col = SchemaField(FieldA, "string", mode, << >>) /\ flag
    ELSE /\ col.field_type = "RECORD" /\ col.mode = mode
         /\ Len(col.fields) = Len(q.properties)

\* C13 (as claimed): the column of every property that is not an array has the type
\* the one precedence gives for its declared types and format (record becoming a
\* coerced string when the object has no properties), an absent type counting as
\* string, and no column is a RECORD without child columns.
C13_OnePrecedence ==
    (done = "__init__" /\ "array" \notin GetType(schema[1][2])) =>
        LET q == schema[1][2]
            col == bigquery_schema[1]
            ct == ClaimedType(GetType(q), GetFormat(q))
        IN /\ NoEmptyRecord(col)
           /\ IF ct = "record"
              THEN RecordOrCoerced(col, q, "NULLABLE", contains_coerced_field)
              ELSE /\ col = SchemaField(FieldA, ct, "NULLABLE", << >>)
                   /\ ~contains_coerced_field

\* C13 (amended): an array is resolved first, through its items (the precedence
\* applied to the items' types and format, mode REPEATED; a coerced NULLABLE string
\* when the items or their type are missing); otherwise a property whose types
\* include object is a RECORD (a coerced string without properties) whatever its
\* format and other types; otherwise the precedence applies to the property itself.
\* An absent type counts as string and no column is a RECORD without child columns.
C13_ArrayThenObjectThenPrecedence ==
    done = "__init__" =>
        LET q == schema[1][2]
            col == bigquery_schema[1]
            flag == contains_coerced_field
        IN /\ NoEmptyRecord(col)
           /\ "array" \in GetType(q) =>
                IF ~UsableItems(q)
                THEN col = SchemaField(FieldA, "string", "NULLABLE", << >>) /\ flag
                ELSE LET it == ClaimedType(q.items[1].type, GetFormat(q.items[1]))
                     IN IF it = "record"
                        THEN RecordOrCoerced(col, q.items[1], "REPEATED", flag)
                        ELSE col = SchemaField(FieldA, it, "REPEATED", << >>) /\ ~flag
           /\ ("array" \notin GetType(q) /\ "object" \in GetType(q)) =>
                RecordOrCoerced(col, q, "NULLABLE", flag)
           /\ ("array" \notin GetType(q) /\ "object" \notin GetType(q)) =>
                /\ col = SchemaField(FieldA, ClaimedType(GetType(q), GetFormat(q)),
                                     "NULLABLE", << >>)
                /\ ~flag
                /\ "type" \notin q.keys =>
                     col.field_type = ClaimedType({ "string" }, GetFormat(q))
C13_Witness ==
    /\ done = "__init__"
    /\ schema[1][2].type = { "object", "number" }
    /\ GetFormat(schema[1][2]) = "date-time"
    /\ bigquery_schema[1].field_type = "RECORD"

\* The schema the claim has _evolve_schema submit: the live columns, each one whose
\* name matches a desired column absent from the live schema replaced by that
\* desired column, followed by the absent desired columns no live column is named as.
DesiredNamed(desired, n) == desired[CHOOSE i \in 1..Len(desired) : desired[i].name = n]
Absent(live, desired) == SelectSeq(desired, LAMBDA d : ~Contains(live, d))
ClaimedSubmitted(live, desired) ==
    [ i \in 1..Len(live) |->
        IF HasColumnNamed(Absent(live, desired), live[i].name)
        THEN DesiredNamed(desired, live[i].name)
        ELSE live[i] ]
    \o SelectSeq(Absent(live, desired), LAMBDA d : ~HasColumnNamed(live, d.name))

\* C15: a call of _evolve_schema that finds a desired column absent from the live
\* schema submits, in one update_table call, the live schema with every name-matching
\* column replaced by the desired definition and every other absent desired column
\* appended, no live column removed; a call that finds no difference submits nothing.
C15_SubmittedIsReplacedAndAppended ==
    \A i \in 1..Len(evolve_log) :
        LET e == evolve_log[i] IN
        IF Absent(e.before, bigquery_schema) = << >>
        THEN e.submitted = << >>
        ELSE e.submitted = << ClaimedSubmitted(e.before, bigquery_schema) >>

\* C16: when update_table fails, the local table schema is what it was before the
\* call, and the next call of _evolve_schema submits the same update again.
C16_FailedUpdateChangesNothing ==
    \A i \in 1..Len(evolve_log) :
        evolve_log[i].exc # "none" =>
            /\ evolve_log[i].after = evolve_log[i].before
            /\ i < Len(evolve_log) => evolve_log[i + 1].submitted = evolve_log[i].submitted

\* C17: under StagedLoad no staging path is written by two batches with distinct
\* batch identifiers, and the path every load job reads is the path start_batch
\* wrote for the job's own batch.
C17_OnePathPerBatch ==
    strategy = "StagedLoad" =>
        /\ \A p \in StagePaths : Cardinality(staged[p].by) <= 1
        /\ \A b \in 1..MaxBatches :
             \A p \in StagePaths : b \in staged[p].by => p = BlobPath(b)
        /\ \A j \in JobIds :
             /\ jobs[j].source \in StagePaths
             /\ staged[jobs[j].source].by = { jobs[j].batch }
C17_Witness ==
    /\ strategy = "StagedLoad"
    /\ \E b1, b2 \in 1..MaxBatches :
         /\ b1 # b2
         /\ staged[BlobPath(b1)].by = {b1} /\ staged[BlobPath(b2)].by = {b2}
    /\ \E j \in JobIds : staged[jobs[j].source].by = { jobs[j].batch }

\* The row identifier the claim gives a record: its key-property values, in the
\* configured order, with "--" between them.
ClaimedRowId(r) ==
    Join(<< "-", "-" >>, [ j \in 1..Len(key_properties) |-> Str(RowOf(r)[key_properties[j]]) ])
InsertJobs == { j \in JobIds : jobs[j].kind = "insert" }

\* C19: with key properties configured the insert call of a batch receives one row
\* identifier per record of the batch, in record order, each the record's key
\* values joined with "--"; without key properties it receives row_ids = None.
C19_RowIdsOfTheBatch ==
    strategy = "Streaming" =>
        \A j \in InsertJobs :
            IF key_properties = << >>
            THEN jobs[j].row_ids.none
            ELSE jobs[j].row_ids.ids =
                    [ i \in 1..Len(accepted[jobs[j].batch]) |->
                        ClaimedRowId(accepted[jobs[j].batch][i]) ]

\* C19 (what does hold): the identifiers are those of the rows the insert call
\* carries, one per row and in row order.
C19_RowIdsOfThePayload ==
    strategy = "Streaming" =>
        \A j \in InsertJobs :
            IF key_properties = << >>
            THEN jobs[j].row_ids.none
            ELSE /\ ~jobs[j].row_ids.none
                 /\ jobs[j].row_ids.ids =
                        [ i \in 1..Len(jobs[j].payload) |-> ClaimedRowId(jobs[j].payload[i]) ]

\* C20: once every concurrent _upload_records call has finished, whatever the
\* interleaving and whether or not an insert raised, _http.json is the module it
\* was before the calls.
AllCallsFinished == \A w \in Workers : wpc[w].at = "done"
C20_SerializerRestored == AllCallsFinished => http_json = "json"

\* C20 (what does hold): a call that runs alone and whose inserts all return puts
\* back the module it found.
C20_RestoredWhenReturning ==
    [][ \A w \in Workers :
          (Restore(w) /\ \A v \in Workers \ {w} : wpc[v].at \in { "start", "done" }
                      /\ cached_ref[w] = "json")
          => http_json' = "json" ]_vars
====
